---------------------------- MODULE Spec2Model ----------------------------
(***************************************************************************)
(* A model of fsdb: the single-file page store of src/src/database.rs,     *)
(* the cursored page handle of src/src/page.rs and the request loop of     *)
(* src/src/mediator.rs.                                                    *)
(*                                                                         *)
(* Representation.                                                         *)
(*  - A byte is a number in 0..255, a String the sequence of its bytes.    *)
(*  - A container (Cursor<Vec<u8>> or File) is [len, data]: its length and *)
(*    the function from the positions that hold a non-zero byte to that   *)
(*    byte; every other position below len holds 0x00.  This is the byte   *)
(*    vector itself, stored without its zeroes.                            *)
(*  - u64 values are kept below U64 (TLC's integers are 32 bits wide, so   *)
(*    the word is scaled from 2^64 to 2^30); i64 is the signed half.       *)
(*  - SystemTime fields (created, modified) are never serialised nor read  *)
(*    by any operation and are left out of PageDescriptor.                 *)
(***************************************************************************)
EXTENDS Integers, Sequences, FiniteSets, TLC

VARIABLES
    build,      \* "debug" (overflow checks panic) or "release" (wrapping)
    db,         \* the Database struct
    page,       \* the live Page handle, or NoPage
    ret,        \* outcome of the last operation
    handed,     \* history: the chunks handed to page handles, in order
    scan,       \* history: the bytes a caller collected by reading from 0
    rt,         \* the write-then-read-back caller
    cache,      \* mediator thread: Vec of served ranges
    queue,      \* mediator thread: ids of the requests in the channel
    status,     \* mediator: RequestStatus of every request sent so far
    mio,        \* mediator: number of container I/O calls performed
    mback,      \* mediator thread: its container and the position in it
    laid        \* history: where the regions laid out in the container end

vars == <<build, db, page, ret, handed, scan, rt, cache, queue, status, mio, mback, laid>>

medvars == <<cache, queue, status, mio, mback>>
dbvars == <<build, db, page, ret, handed, scan, laid>>
rtvars == <<rt>>

-----------------------------------------------------------------------------
(* Machine words *)

U64 == 1073741824
I64Max == (U64 \div 2) - 1

\* `x as i64`
AsI64(x) == IF x > I64Max THEN x - U64 ELSE x

\* `x as u64`
AsU64(x) == x % U64

Max(a, b) == IF a >= b THEN a ELSE b
Min(a, b) == IF a <= b THEN a ELSE b

\* fn round(x, n)
round(x, n) == x + (n - (x % n))

RECURSIVE Pow2(_)
Pow2(k) == IF k = 0 THEN 1 ELSE 2 * Pow2(k - 1)

\* x & !bit, for bit a power of two
AndNot(x, bit) == IF ((x \div bit) % 2) = 1 THEN x - bit ELSE x

-----------------------------------------------------------------------------
(* Arrays *)

Array(length, offset) == [length |-> length, offset |-> offset]

\* Array::end
end(a) == a.offset + a.length

\* Do the byte ranges [offset, end) of a and b share a byte?
Intersects(a, b) == a.offset < end(b) /\ b.offset < end(a)

RECURSIVE SumLen(_)
SumLen(s) == IF s = <<>> THEN 0 ELSE Head(s).length + SumLen(Tail(s))

-----------------------------------------------------------------------------
(* Byte sequences and little-endian integers *)

Zeros(n) == [i \in 1..n |-> 0]

RECURSIVE Flatten(_)
Flatten(ss) == IF ss = <<>> THEN <<>> ELSE Head(ss) \o Flatten(Tail(ss))

\* uN::to_le_bytes for a value below U64, in n bytes
RECURSIVE ToLe(_, _)
ToLe(v, n) == IF n = 0 THEN <<>> ELSE <<v % 256>> \o ToLe(v \div 256, n - 1)

\* uN::from_le_bytes; a value that does not fit below U64 becomes U64 - 1
RECURSIVE FromLeRaw(_)
FromLeRaw(bs) ==
    IF bs = <<>> THEN 0
    ELSE LET hi == FromLeRaw(Tail(bs))
         IN  IF hi >= U64 \div 256 THEN U64 - 1 ELSE Head(bs) + 256 * hi

FromLe(bs) == Min(FromLeRaw(bs), U64 - 1)

-----------------------------------------------------------------------------
(* The container: Read + Write + Seek *)

Container(bytes) ==
    [len |-> Len(bytes),
     data |-> [p \in {q \in 0..(Len(bytes) - 1) : bytes[q + 1] # 0} |-> bytes[p + 1]]]

EmptyContainer == Container(<<>>)

ByteAt(c, p) == IF p \in DOMAIN c.data THEN c.data[p] ELSE 0

\* the bytes at [pos, pos + n)
Slice(c, pos, n) == [i \in 1..n |-> ByteAt(c, pos + i - 1)]

\* read_exact of n bytes at pos succeeds iff they all lie below the length
CanRead(c, pos, n) == pos + n <= c.len

\* seek(Start(pos)) then write_all(bytes): a write past the end zero-fills
WriteAt(c, pos, bytes) ==
    LET n == Len(bytes)
        keep == {p \in DOMAIN c.data : p < pos \/ p >= pos + n}
        put == {p \in pos..(pos + n - 1) : bytes[p - pos + 1] # 0}
    IN  [len |-> IF n = 0 THEN c.len ELSE Max(c.len, pos + n),
         data |-> [p \in keep \cup put |->
                     IF p \in put THEN bytes[p - pos + 1] ELSE c.data[p]]]

-----------------------------------------------------------------------------
(* Strings, access entries, page descriptors *)

Slash == <<47>>     \* "/"
Star == <<42>>      \* "*"
NameA == <<97>>     \* "a"
NameB == <<98>>     \* "b"

\* enum Access: the variant and its principal; perm is the payload of Custom
Access(kind, entity, perm) == [kind |-> kind, entity |-> entity, perm |-> perm]

ReadWriteExecute(entity) == Access("ReadWriteExecute", entity, 7)

\* struct PageDescriptor
PageDescriptor(name, acl, inodes) ==
    [name |-> name, access_control_list |-> acl, inodes |-> inodes]

\* slice.iter().position(|i| i == str): the first index (from 0) holding str
Position(strtab, str) ==
    IF \E i \in 1..Len(strtab) : strtab[i] = str
    THEN (CHOOSE i \in 1..Len(strtab) :
            strtab[i] = str /\ \A j \in 1..(i - 1) : strtab[j] # str) - 1
    ELSE -1

\* the table get_strtab_index leaves behind
InternTable(strtab, str) ==
    IF Position(strtab, str) >= 0 THEN strtab ELSE Append(strtab, str)

\* the index get_strtab_index returns
InternIndex(strtab, str) ==
    IF Position(strtab, str) >= 0 THEN Position(strtab, str) ELSE Len(strtab)

\* Database::get_strtab_index
get_strtab_index(strtab, str) ==
    [index |-> InternIndex(strtab, str), table |-> InternTable(strtab, str)]

\* the str! macro: strtab.get(n)
HasStr(strtab, n) == n < Len(strtab)
Str(strtab, n) == strtab[n + 1]

-----------------------------------------------------------------------------
(* Serialisation *)

\* the permission byte serialise_inode_table writes for an access entry
PermBits(a) ==
    CASE a.kind = "None" -> 0
      [] a.kind = "Read" -> 1
      [] a.kind = "ReadWrite" -> 3
      [] a.kind = "ReadWriteExecute" -> 7
      [] a.kind = "ReadExecute" -> 5
      [] OTHER -> a.perm

\* the variant parse_inode_table builds from a permission byte
AccessOfBits(bits, entity) ==
    CASE bits = 0 -> Access("None", entity, 0)
      [] bits = 1 -> Access("Read", entity, 1)
      [] bits = 3 -> Access("ReadWrite", entity, 3)
      [] bits = 7 -> Access("ReadWriteExecute", entity, 7)
      [] bits = 5 -> Access("ReadExecute", entity, 5)
      [] OTHER -> Access("Custom", entity, bits)

\* the strings one record interns, in the order the loop body interns them
RecordStrings(pd) ==
    <<pd.name>>
    \o [i \in 1..Len(pd.access_control_list) |-> pd.access_control_list[i].entity]
    \o <<pd.name>>

RECURSIVE InternAll(_, _)
InternAll(strtab, strs) ==
    IF strs = <<>> THEN strtab
    ELSE InternAll(InternTable(strtab, Head(strs)), Tail(strs))

\* the bytes of one inode record, given the string table after its interning
RecordBytes(pd, strtab) ==
    LET acl == pd.access_control_list
        acls == Flatten([i \in 1..Len(acl) |->
                    <<PermBits(acl[i])>> \o ToLe(InternIndex(strtab, acl[i].entity), 8)])
    IN  ToLe(InternIndex(strtab, pd.name), 8)
        \o ToLe(Len(acl) % 65536, 2)
        \o acls
        \o Zeros(round(2 + (1 + 8) * Len(acls), 16))
        \o ToLe(Len(pd.inodes), 8)
        \o Flatten([i \in 1..Len(pd.inodes) |->
              ToLe(pd.inodes[i].length, 8) \o ToLe(pd.inodes[i].offset, 8)])

\* Database::serialise_inode_table over the records in HashMap iteration
\* order `order`: the bytes and the string table it leaves
RECURSIVE SerialiseRecords(_, _, _)
SerialiseRecords(table, order, strtab) ==
    IF order = <<>> THEN [bytes |-> <<>>, strtab |-> strtab]
    ELSE LET pd == table[Head(order)]
             st == InternAll(strtab, <<Head(order)>> \o RecordStrings(pd))
             rest == SerialiseRecords(table, Tail(order), st)
         IN  [bytes |-> RecordBytes(pd, st) \o rest.bytes, strtab |-> rest.strtab]

serialise_inode_table(d, order) ==
    LET r == SerialiseRecords(d.inode_table, order, d.string_table)
    IN  [bytes |-> r.bytes,
         db |-> [d EXCEPT !.string_table = r.strtab,
                          !.inode_table_size = Len(r.bytes)]]

\* Database::serialise_string_table
serialise_string_table(d) ==
    LET bytes == Flatten([i \in 1..Len(d.string_table) |->
                    ToLe(Len(d.string_table[i]), 8) \o d.string_table[i]])
    IN  [bytes |-> bytes, db |-> [d EXCEPT !.string_table_size = Len(bytes)]]

\* the orders in which a HashMap with these keys may be iterated
Orders(keys) ==
    {o \in [1..Cardinality(keys) -> keys] :
        \A i, j \in 1..Cardinality(keys) : i # j => o[i] # o[j]}

\* Database::write_header with the inode table iterated in `order`: the
\* values it computes, the container and the Database it leaves
HeaderLayout(d, order) ==
    LET c1 == WriteAt(d.backing, 0, d.raw_header)
        c2 == WriteAt(c1, 80, d.meta)
        pos == 80 + Len(d.meta)
        inode_offset == pos + (16 - (pos % 16))
        inode_length == Cardinality(DOMAIN d.inode_table)
        si == serialise_inode_table(d, order)
        c3 == WriteAt(c2, inode_offset, si.bytes)
        string_offset == AndNot((inode_offset + Len(si.bytes)) + 256, 256)
        string_length == Len(si.db.string_table)
        ss == serialise_string_table(si.db)
        c4 == WriteAt(c3, string_offset, ss.bytes)
        history_offset == string_offset + string_length + 256
                            - ((string_offset + string_length) % 256)
        history_length == 0
        block == Flatten(<<ToLe(inode_length, 8), ToLe(inode_offset, 8),
                           ToLe(string_length, 8), ToLe(string_offset, 8),
                           ToLe(history_length, 8), ToLe(history_offset, 8)>>)
        c5 == WriteAt(c4, string_offset + Len(ss.bytes), block)
    IN  [db |-> [ss.db EXCEPT !.backing = c5],
         inode_offset |-> inode_offset, inode_size |-> Len(si.bytes),
         string_offset |-> string_offset, string_size |-> Len(ss.bytes),
         history_offset |-> history_offset,
         block_offset |-> string_offset + Len(ss.bytes),
         inode_length |-> inode_length, string_length |-> string_length,
         tables_end |-> Max(Max(pos, inode_offset + Len(si.bytes)),
                            string_offset + Len(ss.bytes))]

write_header(d, order) == HeaderLayout(d, order).db

-----------------------------------------------------------------------------
(* Construction *)

\* the RON text of a metadata value of n bytes: "(" x.. ")"
MetaText(n) == [i \in 1..n |-> IF i = 1 THEN 40 ELSE IF i = n THEN 41 ELSE 120]

\* the encoded lengths of the metadata types the model is instantiated with
MetaLens == {2, 97}

\* blank with a header that declares no inode record (the root page is
\* not counted)
blank_NoRootCount(meta) ==
    LET data_offset == round(Max(80 + Len(meta), 128), 16)
        header == Flatten(<<
            <<70, 83, 68, 66>>, ToLe(1, 4), ToLe(0, 8),
            ToLe(0, 8), ToLe(data_offset, 8),
            ToLe(2, 8), ToLe(data_offset + 256, 8),
            ToLe(1, 8), ToLe(data_offset + 512, 8),
            ToLe(Len(meta), 8), ToLe(80, 8),
            meta>>)
    IN  [raw_header |-> SubSeq(header, 1, 80),
         backing |-> Container(header),
         inode_table_range |-> Array(1, data_offset),
         string_table_range |-> Array(2, data_offset + 256),
         history_table_range |-> Array(1, data_offset + 512),
         metadata_range |-> Array(Len(meta), 80),
         inode_table_size |-> 32,
         string_table_size |-> 18,
         history_table_size |-> 0,
         inode_table |-> (Slash :> PageDescriptor(Slash, <<ReadWriteExecute(Star)>>, <<>>)),
         string_table |-> <<Slash, Star>>,
         meta |-> meta]

\* Database::blank for a metadata type whose default encodes to `meta`
blank(meta) ==
    LET data_offset == round(Max(80 + Len(meta), 128), 16)
        header == Flatten(<<
            <<70, 83, 68, 66>>, ToLe(1, 4), ToLe(0, 8),
            ToLe(1, 8), ToLe(data_offset, 8),
            ToLe(2, 8), ToLe(data_offset + 256, 8),
            ToLe(1, 8), ToLe(data_offset + 512, 8),
            ToLe(Len(meta), 8), ToLe(80, 8),
            meta>>)
    IN  [raw_header |-> SubSeq(header, 1, 80),
         backing |-> Container(header),
         inode_table_range |-> Array(1, data_offset),
         string_table_range |-> Array(2, data_offset + 256),
         history_table_range |-> Array(1, data_offset + 512),
         metadata_range |-> Array(Len(meta), 80),
         inode_table_size |-> 32,
         string_table_size |-> 18,
         history_table_size |-> 0,
         inode_table |-> (Slash :> PageDescriptor(Slash, <<ReadWriteExecute(Star)>>, <<>>)),
         string_table |-> <<Slash, Star>>,
         meta |-> meta]

\* Database::change_buffer, the inode table iterated in `order`
change_buffer(d, buffer, order) == write_header([d EXCEPT !.backing = buffer], order)

\* Database::data_offset
data_offset(d) ==
    Max(Max(d.inode_table_range.offset + d.inode_table_size,
            d.string_table_range.offset + d.string_table_size),
        d.metadata_range.offset + d.metadata_range.length)

-----------------------------------------------------------------------------
(* The allocator *)

\* the inodes of every page of the inode table, then the two sentinels
AllocItems(d) ==
    LET keys == DOMAIN d.inode_table
        order == CHOOSE o \in Orders(keys) : TRUE
    IN  Flatten([i \in 1..Cardinality(keys) |-> d.inode_table[order[i]].inodes])
        \o <<Array(0, data_offset(d)), Array(0, d.backing.len)>>

\* sort_unstable_by on the offset: every arrangement in ascending order (the
\* order of elements with equal keys is not specified)
SortedByOffset(items) ==
    LET n == Len(items)
        perms == {p \in [1..n -> 1..n] : \A i, j \in 1..n : i # j => p[i] # p[j]}
    IN  {[i \in 1..n |-> items[p[i]]] :
            p \in {q \in perms : \A i \in 1..(n - 1) :
                                    items[q[i]].offset <= items[q[i + 1]].offset}}

\* the scan of allocate_chunks: the gap in front of every element
GapBefore(sorted, i, start) ==
    LET a == IF i = 1 THEN Array(0, start) ELSE sorted[i - 1]
    IN  Array(sorted[i].offset - (a.offset + a.length), a.offset + a.length)

\* u64 subtraction in a build without overflow checks
Wrap(g) == IF g.length < 0 THEN [g EXCEPT !.length = g.length + U64] ELSE g

\* what allocate_chunks returns for one sorted arrangement
AllocFor(d, min_space, sorted, bld) ==
    LET raw == [i \in 1..Len(sorted) |-> GapBefore(sorted, i, data_offset(d))]
        overflow == \E i \in 1..Len(raw) : raw[i].length < 0
        gaps == [i \in 1..Len(raw) |-> Wrap(raw[i])]
        fit == {i \in 1..Len(gaps) : gaps[i].length >= min_space}
        best == {i \in fit : \A j \in fit : gaps[i].length <= gaps[j].length}
        grow == min_space + (4096 - (min_space % 4096))
    IN  IF overflow /\ bld = "debug"
        THEN {[panic |-> TRUE, db |-> d, arrays |-> <<>>]}
        ELSE IF fit # {}
        THEN {[panic |-> FALSE, db |-> d,
               arrays |-> <<Array(min_space, gaps[i].offset)>>] : i \in best}
        ELSE {[panic |-> FALSE,
               db |-> [d EXCEPT !.backing = WriteAt(d.backing, d.backing.len, Zeros(grow))],
               arrays |-> <<Array(min_space, d.backing.len)>>]}

\* Database::allocate_chunks: every outcome the call may have
allocate_chunks(d, min_space, bld) ==
    UNION {AllocFor(d, min_space, sorted, bld) : sorted \in SortedByOffset(AllocItems(d))}

-----------------------------------------------------------------------------
(* Parsing *)

Ok(v) == [ok |-> TRUE, val |-> v, err |-> "none"]
Err(e) == [ok |-> FALSE, val |-> <<>>, err |-> e]

\* Database::parse_string_table.  Its window `buffer` is a copy of the 512
\* zero bytes of `buf`; reserve() adds no element, so buffer[512..] is empty
\* and read_exact reads nothing from the container: every entry is decoded
\* from a zero length prefix and the window is written back unchanged.
\* parse_string_table with a loop that stops one string early
parse_string_table_OneShort(c, arr) == Ok([i \in 1..(arr.length - 1) |-> <<>>])

parse_string_table(c, arr) == Ok([i \in 1..arr.length |-> <<>>])

\* one access entry of a record: the permission byte and, as the string
\* index, the byte after it (i[1])
ParseAccess(acl, k, strtab) ==
    AccessOfBits(acl[9 * (k - 1) + 1], Str(strtab, acl[9 * (k - 1) + 2]))

\* Database::parse_inode_table: the loop, with the reader at pos
RECURSIVE ParseRecords(_, _, _, _, _)
ParseRecords(c, strtab, length, pos, map) ==
    IF Cardinality(DOMAIN map) >= length THEN Ok(map)
    ELSE IF ~CanRead(c, pos, 10) THEN Err("UnexpectedEof")
    ELSE
    LET page_name == FromLe(Slice(c, pos, 8))
        acl_len == FromLe(Slice(c, pos + 8, 2))
        acl_size == round((1 + 8) * acl_len, 16) - 2
        acl == Slice(c, pos + 10, acl_size)
        cpos == pos + 10 + acl_size
        chunk_len == FromLe(Slice(c, cpos, 8))
        rpos == cpos + 8
        chunk_ranges == Slice(c, rpos, 16 * chunk_len)
    IN  IF ~CanRead(c, pos + 10, acl_size) \/ ~CanRead(c, cpos, 8) THEN Err("UnexpectedEof")
        ELSE IF chunk_len > c.len \/ ~CanRead(c, rpos, 16 * chunk_len) THEN Err("UnexpectedEof")
        ELSE IF ~HasStr(strtab, page_name) THEN Err("NotFound")
        ELSE IF (1 + 8) * acl_len > acl_size THEN Err("panic")
        ELSE IF \E k \in 1..acl_len : ~HasStr(strtab, acl[9 * (k - 1) + 2]) THEN Err("NotFound")
        ELSE LET name == Str(strtab, page_name)
                 pd == PageDescriptor(name,
                          [k \in 1..acl_len |-> ParseAccess(acl, k, strtab)],
                          [k \in 1..chunk_len |->
                              Array(FromLe(SubSeq(chunk_ranges, 16 * (k - 1) + 1, 16 * (k - 1) + 8)),
                                    FromLe(SubSeq(chunk_ranges, 16 * (k - 1) + 9, 16 * k)))])
                 map2 == [n \in DOMAIN map \cup {name} |-> IF n = name THEN pd ELSE map[n]]
             IN  ParseRecords(c, strtab, length, rpos + 16 * chunk_len, map2)

parse_inode_table(c, strtab, arr) == ParseRecords(c, strtab, arr.length, arr.offset, << >>)

\* ron::de::from_bytes: the text decodes iff it is the encoding of a value
DecodesMeta(text) == Len(text) >= 2 /\ text = MetaText(Len(text))

\* Database::open
open(c) ==
    IF ~CanRead(c, 0, 80) THEN Err("UnexpectedEof")
    ELSE
    LET buf == Slice(c, 0, 80)
        pair(at) == Array(FromLe(SubSeq(buf, at + 1, at + 8)),
                          FromLe(SubSeq(buf, at + 9, at + 16)))
        inode_table_range == pair(16)
        string_table_range == pair(32)
        history_table_range == pair(48)
        metadata_range == pair(64)
        strtab == parse_string_table(c, string_table_range)
        inodetab == parse_inode_table(c, strtab.val, inode_table_range)
        text == Slice(c, metadata_range.offset, metadata_range.length)
    IN  IF SubSeq(buf, 1, 4) # <<70, 83, 68, 66>> THEN Err("Invalid Magic Number")
        ELSE IF SubSeq(buf, 5, 8) # <<1, 0, 0, 0>> THEN Err("Unrecognised version")
        ELSE IF ~inodetab.ok THEN inodetab
        ELSE IF metadata_range.length > c.len
                \/ ~CanRead(c, metadata_range.offset, metadata_range.length)
             THEN Err("UnexpectedEof")
        ELSE IF ~DecodesMeta(text) THEN Err("Other")
        ELSE Ok([raw_header |-> buf,
                 backing |-> c,
                 inode_table_range |-> inode_table_range,
                 string_table_range |-> string_table_range,
                 history_table_range |-> history_table_range,
                 metadata_range |-> metadata_range,
                 inode_table_size |-> Cardinality(DOMAIN inodetab.val),
                 string_table_size |-> Len(strtab.val),
                 history_table_size |-> 0,
                 inode_table |-> inodetab.val,
                 string_table |-> strtab.val,
                 meta |-> text])

-----------------------------------------------------------------------------
(* The page handle *)

\* struct Page: the descriptor it carries and its cursor
Page(pd, index) == [live |-> TRUE, page_descriptor |-> pd, index |-> index]

NoPage == [live |-> FALSE, page_descriptor |-> PageDescriptor(<<>>, <<>>, <<>>), index |-> 0]

\* the locating pass of read and write: the first chunk k with
\* running_size + len > index, or 0; and running_size in front of chunk k
RECURSIVE Running(_, _)
Running(inodes, k) == IF k <= 1 THEN 0 ELSE inodes[k - 1].length + Running(inodes, k - 1)

Locate(inodes, index) ==
    LET hit == {k \in 1..Len(inodes) : Running(inodes, k) + inodes[k].length > index}
    IN  IF hit = {} THEN 0 ELSE CHOOSE k \in hit : \A j \in hit : k <= j

\* the container position of the cursor inside chunk k
CursorPos(inodes, k, index) == inodes[k].offset + (index - Running(inodes, k))

\* the number of bytes one call moves inside chunk k
CallLen(inodes, k, index, buflen) == Min(inodes[k].length, buflen)

\* Seek for Page: pos is [whence, n]
seek(pg, pos, bld) ==
    LET idx == AsI64(pg.index)
        total == AsI64(SumLen(pg.page_descriptor.inodes) % U64)
        base == IF pos.whence = "Current" THEN idx ELSE total
    IN  IF pos.whence = "Start" THEN [res |-> "ok", page |-> [pg EXCEPT !.index = pos.n]]
        ELSE IF -pos.n > base THEN [res |-> "UnexpectedEof", page |-> pg]
        ELSE IF base + pos.n > I64Max /\ bld = "debug" THEN [res |-> "panic", page |-> pg]
        ELSE [res |-> "ok", page |-> [pg EXCEPT !.index = AsU64(base + pos.n + U64)]]

\* Read for Page into a buffer of buflen bytes
read(pg, c, buflen) ==
    LET inodes == pg.page_descriptor.inodes
        k == Locate(inodes, pg.index)
        at == CursorPos(inodes, k, pg.index)
        len == CallLen(inodes, k, pg.index, buflen)
    IN  IF k = 0 THEN [res |-> "ok", n |-> 0, bytes |-> <<>>, at |-> 0, page |-> pg]
        ELSE IF ~CanRead(c, at, len)
        THEN [res |-> "UnexpectedEof", n |-> 0, bytes |-> <<>>, at |-> at, page |-> pg]
        ELSE [res |-> "ok", n |-> len, bytes |-> Slice(c, at, len), at |-> at,
              page |-> [pg EXCEPT !.index = pg.index + len]]

\* Write::flush for Page
flush(pg) == "panic"

\* Write::write for Page: every outcome the call may have.  The second arm
\* runs DBAgent::allocate_chunks, i.e. Database::allocate_chunks.
write(pg, d, buf, bld) ==
    LET inodes == pg.page_descriptor.inodes
        k == Locate(inodes, pg.index)
        at == CursorPos(inodes, k, pg.index)
        len == CallLen(inodes, k, pg.index, Len(buf))
    IN  IF k # 0
        THEN {[res |-> "ok", n |-> len, at |-> at, chunks |-> <<>>,
               page |-> [pg EXCEPT !.index = pg.index + len],
               db |-> [d EXCEPT !.backing = WriteAt(d.backing, at, SubSeq(buf, 1, len))]]}
        ELSE {IF a.panic
              THEN [res |-> "panic", n |-> 0, at |-> 0, chunks |-> <<>>, page |-> pg, db |-> d]
              ELSE LET first == a.arrays[1]
                   IN  [res |-> IF flush(pg) = "panic" THEN "panic" ELSE "ok",
                        n |-> first.length, at |-> first.offset, chunks |-> a.arrays,
                        page |-> [pg EXCEPT !.page_descriptor.inodes = inodes \o a.arrays],
                        db |-> [a.db EXCEPT !.backing =
                                  WriteAt(a.db.backing, first.offset, SubSeq(buf, 1, first.length))]]
              : a \in allocate_chunks(d, Len(buf), bld)}

\* Database::create_page: every outcome
create_page(d, path, bld) ==
    IF path \in DOMAIN d.inode_table
    THEN {[res |-> "AlreadyExists", page |-> NoPage, db |-> d, chunks |-> <<>>]}
    ELSE {IF a.panic
          THEN [res |-> "panic", page |-> NoPage, db |-> d, chunks |-> <<>>]
          ELSE [res |-> "ok", db |-> a.db, chunks |-> a.arrays,
                page |-> Page(PageDescriptor(path, <<ReadWriteExecute(Star)>>, a.arrays), 0)]
          : a \in allocate_chunks(d, 16, bld)}

\* Database::open_page
open_page(d, path) ==
    IF path \in DOMAIN d.inode_table
    THEN [res |-> "ok", page |-> Page(d.inode_table[path], 0)]
    ELSE [res |-> "NotFound", page |-> NoPage]

-----------------------------------------------------------------------------
(* Containers written by another session, as the parser reads them:        *)
(* header, metadata, one inode record, string table, data region.          *)

\* the byte stored at data position p
DataByte(p) == (p % 251) + 1

\* one access entry on the wire
WireAccess(e) == <<e[1]>> \o ToLe(e[2], 8)

\* chunks of the given lengths laid from `start`, `gap` bytes apart
RECURSIVE LayChunks(_, _, _)
LayChunks(lens, start, gap) ==
    IF lens = <<>> THEN <<>>
    ELSE <<Array(Head(lens), start)>> \o LayChunks(Tail(lens), start + Head(lens) + gap, gap)

\* the container: meta_last places the metadata after the tables, nstr is
\* the string count, acl the (perm, index) pairs, lens the chunk lengths
Image(meta_last, nstr, acl, lens, gap, tail) ==
    LET meta == MetaText(2)
        aclb == Flatten([i \in 1..Len(acl) |-> WireAccess(acl[i])])
        reclen == 10 + (round(9 * Len(acl), 16) - 2) + 8 + 16 * Len(lens)
        strb == Flatten([i \in 1..nstr |-> ToLe(1, 2) \o <<96 + i>>])
        io == IF meta_last THEN 80 ELSE 96
        so == io + reclen
        mo == IF meta_last THEN so + Len(strb) ELSE 80
        ds == IF meta_last THEN mo + Len(meta) ELSE so + Len(strb)
        chunks == LayChunks(lens, ds, gap)
        total == (IF chunks = <<>> THEN ds ELSE end(chunks[Len(chunks)])) + tail
        rec == ToLe(0, 8) \o ToLe(Len(acl), 2) \o aclb
               \o Zeros(round(9 * Len(acl), 16) - 2 - Len(aclb))
               \o ToLe(Len(chunks), 8)
               \o Flatten([i \in 1..Len(chunks) |->
                     ToLe(chunks[i].length, 8) \o ToLe(chunks[i].offset, 8)])
        header == Flatten(<<
            <<70, 83, 68, 66>>, ToLe(1, 4), ToLe(0, 8),
            ToLe(1, 8), ToLe(io, 8),
            ToLe(nstr, 8), ToLe(so, 8),
            ToLe(0, 8), ToLe(0, 8),
            ToLe(Len(meta), 8), ToLe(mo, 8)>>)
        front == IF meta_last THEN header \o rec \o strb \o meta
                 ELSE header \o meta \o Zeros(14) \o rec \o strb
    IN  [backing |-> Container(front \o [i \in 1..(total - ds) |-> DataByte(ds + i - 1)]),
         data_start |-> ds]

Images ==
    {Image(FALSE, 2, <<<<7, 1>>>>, <<4, 4>>, 4, 8),
     Image(TRUE, 3, <<<<1, 0>>, <<9, 2>>>>, <<4>>, 0, 24),
     Image(FALSE, 1, <<>>, <<>>, 0, 0)}

-----------------------------------------------------------------------------
(* The database and one page handle at a time (a Page borrows the Database *)
(* mutably, so no Database method runs while a handle lives).              *)

MaxCreates == 2

Names == {Slash, NameA, NameB, <<>>}
MetaTexts == {MetaText(n) : n \in MetaLens}

\* caller buffers
ReadSizes == {3, 6}
WriteLens == {3, 17}
Buf(len, tag) == [i \in 1..len |-> 32 * tag + ((i - 1) % 32) + 1]
WriteBufs == {Buf(len, 1) : len \in WriteLens}
AllocBufs == {Buf(17, 1)}
SeekArgs ==
    {[whence |-> "Start", n |-> n] : n \in {0, 2, I64Max + 1}}
    \cup {[whence |-> "Current", n |-> n] : n \in {-1, 0}}
    \cup {[whence |-> "End", n |-> n] : n \in {-1, 0}}

NoArray == Array(0, 0)

\* what a call of write_header computed and where it wrote
NoLayout ==
    [inode_length |-> 0, inode_offset |-> 0, inode_size |-> 0,
     string_length |-> 0, string_offset |-> 0, string_size |-> 0,
     history_offset |-> 0, block_offset |-> 0]

Layout(h) == [f \in DOMAIN NoLayout |-> h[f]]

Ret(op, res) ==
    [op |-> op, res |-> res, arg |-> <<>>, n |-> 0, bytes |-> <<>>, at |-> 0,
     chunk |-> NoArray, arrays |-> <<>>, alen |-> 0, before |-> 0,
     prev |-> <<>>, hdr |-> NoLayout, old |-> <<>>]

\* the calls that construct a Database or write its header
HeaderOps == {"blank", "open", "reopen", "change_buffer", "write_header"}

\* the last two of those calls before the coming one, the latest first, as
\* far as no other call came in between
Trail ==
    IF ret.op \in HeaderOps
    THEN SubSeq(<<ret.op>> \o ret.prev, 1, Min(2, 1 + Len(ret.prev)))
    ELSE <<>>

Halted == ret.res = "panic"

\* the bytes of the chunks of a descriptor, in order
ChunkBytes(c, inodes) == Flatten([i \in 1..Len(inodes) |-> Slice(c, inodes[i].offset, inodes[i].length)])

ScanIdle == [st |-> "idle", acc |-> <<>>]
ScanOpen == [st |-> "open", acc |-> <<>>]

Handed(by, name, arrays) ==
    [i \in 1..Len(arrays) |-> [by |-> by, name |-> name, chunk |-> arrays[i]]]

Init ==
    /\ build \in {"debug", "release"}
    /\ db \in {blank(meta) : meta \in MetaTexts}
    /\ page = NoPage
    /\ ret = Ret("blank", "ok")
    /\ handed = <<>>
    /\ scan = ScanIdle
    /\ rt = [pc |-> "idle", b |-> <<>>, off |-> 0, got |-> <<>>]
    /\ cache = <<>>
    /\ queue = <<>>
    /\ status = <<>>
    /\ mio = 0
    /\ mback = [c |-> Container(Zeros(8)), pos |-> 0]
    /\ laid = db.backing.len

\* Database::change_buffer onto a fresh empty container
ChangeBuffer ==
    /\ ~Halted /\ ~page.live
    /\ \E order \in Orders(DOMAIN db.inode_table) :
         LET h == HeaderLayout([db EXCEPT !.backing = EmptyContainer], order)
         IN  /\ db' = change_buffer(db, EmptyContainer, order)
             /\ laid' = h.tables_end
             /\ ret' = [Ret("change_buffer", "ok") EXCEPT !.prev = Trail, !.hdr = Layout(h)]
    /\ handed' = <<>>
    /\ UNCHANGED <<build, page, scan, rt>> /\ UNCHANGED medvars

\* Database::write_header, called on the Database
WriteHeader ==
    /\ ~Halted /\ ~page.live
    /\ \E order \in Orders(DOMAIN db.inode_table) :
         LET h == HeaderLayout(db, order)
         IN  /\ db' = write_header(db, order)
             /\ laid' = h.tables_end
             /\ ret' = [Ret("write_header", "ok") EXCEPT !.prev = Trail, !.hdr = Layout(h)]
    /\ UNCHANGED <<build, page, handed, scan, rt>> /\ UNCHANGED medvars

\* Database::open on a container of another session
OpenImage ==
    /\ ~Halted /\ ~page.live
    /\ \E img \in Images :
         LET r == open(img.backing)
         IN  IF r.ok
             THEN /\ db' = r.val
                  /\ laid' = img.data_start
                  /\ handed' = <<>>
                  /\ ret' = Ret("open", "ok")
             ELSE /\ ret' = Ret("open", r.err)
                  /\ UNCHANGED <<db, laid, handed>>
    /\ UNCHANGED <<build, page, scan, rt>> /\ UNCHANGED medvars

\* Database::open on the container this Database has written
Reopen ==
    /\ ~Halted /\ ~page.live
    /\ LET r == open(db.backing)
       IN  IF r.ok
           THEN /\ db' = r.val
                /\ handed' = <<>>
                /\ ret' = [Ret("reopen", "ok") EXCEPT !.prev = Trail, !.old = db.inode_table]
           ELSE /\ ret' = [Ret("reopen", r.err) EXCEPT !.prev = Trail, !.old = db.inode_table]
                /\ UNCHANGED <<db, handed>>
    /\ UNCHANGED <<build, page, scan, rt, laid>> /\ UNCHANGED medvars

CreatePage(path) ==
    /\ ~Halted /\ ~page.live
    /\ Len(handed) < MaxCreates
    /\ \E r \in create_page(db, path, build) :
         /\ db' = r.db
         /\ page' = r.page
         /\ ret' = [Ret("create_page", r.res) EXCEPT
                      !.arg = path, !.arrays = r.chunks, !.alen = r.db.backing.len,
                      !.before = db.backing.len]
         /\ handed' = handed \o Handed("create", path, r.chunks)
         /\ scan' = IF r.res = "ok" THEN ScanOpen ELSE ScanIdle
    /\ UNCHANGED <<build, rt, laid>> /\ UNCHANGED medvars

OpenPage(path) ==
    /\ ~Halted /\ ~page.live
    /\ LET r == open_page(db, path)
       IN  /\ page' = r.page
           /\ ret' = [Ret("open_page", r.res) EXCEPT !.arg = path]
           /\ scan' = IF r.res = "ok" THEN ScanOpen ELSE ScanIdle
    /\ UNCHANGED <<build, db, handed, rt, laid>> /\ UNCHANGED medvars

\* the handle goes out of scope
DropPage ==
    /\ ~Halted /\ page.live
    /\ page' = NoPage
    /\ ret' = Ret("drop", "ok")
    /\ scan' = ScanIdle
    /\ UNCHANGED <<build, db, handed, rt, laid>> /\ UNCHANGED medvars

Seek(pos) ==
    /\ ~Halted /\ page.live
    /\ LET r == seek(page, pos, build)
       IN  /\ page' = r.page
           /\ ret' = [Ret("seek", r.res) EXCEPT !.arg = pos, !.n = r.page.index,
                        !.before = page.index]
           /\ scan' = IF r.res = "ok" /\ pos = [whence |-> "Start", n |-> 0]
                      THEN ScanOpen ELSE ScanIdle
    /\ UNCHANGED <<build, db, handed, rt, laid>> /\ UNCHANGED medvars

Read(buflen) ==
    /\ ~Halted /\ page.live
    /\ LET r == read(page, db.backing, buflen)
           k == Locate(page.page_descriptor.inodes, page.index)
       IN  /\ page' = r.page
           /\ ret' = [Ret("read", r.res) EXCEPT
                        !.arg = buflen, !.n = r.n, !.bytes = r.bytes, !.at = r.at,
                        !.chunk = IF k = 0 THEN NoArray ELSE page.page_descriptor.inodes[k],
                        !.before = page.index]
           /\ scan' = IF scan.st \notin {"open", "eof"} THEN scan
                      ELSE IF r.res # "ok" THEN ScanIdle
                      ELSE IF r.n = 0 THEN [scan EXCEPT !.st = "eof"]
                      ELSE [st |-> "open", acc |-> scan.acc \o r.bytes]
    /\ UNCHANGED <<build, db, handed, rt, laid>> /\ UNCHANGED medvars

Write(buf) ==
    /\ ~Halted /\ page.live
    /\ \E r \in write(page, db, buf, build) :
         LET k == Locate(page.page_descriptor.inodes, page.index)
         IN  /\ page' = r.page
             /\ db' = r.db
             /\ ret' = [Ret("write", r.res) EXCEPT
                          !.arg = buf, !.n = r.n, !.at = r.at, !.arrays = r.chunks,
                          !.alen = r.db.backing.len,
                          !.chunk = IF k = 0 THEN NoArray ELSE page.page_descriptor.inodes[k],
                          !.before = page.index]
             /\ handed' = handed \o Handed("write", page.page_descriptor.name, r.chunks)
    /\ scan' = ScanIdle
    /\ UNCHANGED <<build, rt, laid>> /\ UNCHANGED medvars

\* The database, its pages and the allocator
Next ==
    \/ ChangeBuffer
    \/ OpenImage
    \/ \E path \in Names : CreatePage(path)
    \/ \E path \in Names : OpenPage(path)
    \/ DropPage
    \/ \E buf \in AllocBufs : Write(buf)

Spec == Init /\ [][Next]_vars

\* Writing the header and reading it back
HeaderNext ==
    \/ ChangeBuffer
    \/ WriteHeader
    \/ OpenImage
    \/ Reopen

HeaderSpec == Init /\ [][HeaderNext]_vars

\* Writing through a page handle, inside and past its chunks
WriteNext ==
    \/ \E path \in Names : CreatePage(path)
    \/ \E path \in Names : OpenPage(path)
    \/ DropPage
    \/ \E buf \in WriteBufs : Write(buf)

WriteSpec == Init /\ [][WriteNext]_vars

\* Seeking and reading through a page handle
PageNext ==
    \/ OpenImage
    \/ \E path \in Names : CreatePage(path)
    \/ \E path \in Names : OpenPage(path)
    \/ DropPage
    \/ \E pos \in SeekArgs : Seek(pos)
    \/ \E buflen \in ReadSizes : Read(buflen)

PageSpec == Init /\ [][PageNext]_vars

-----------------------------------------------------------------------------
(* One access entry through the wire form of the inode table *)

\* the permission bytes a Custom entry is given
CustomBits == {0, 1, 2, 3, 5, 7, 9, 255}

\* the access entries over the principals of a string table
Entries(strtab) ==
    LET principals == {strtab[i] : i \in 1..Len(strtab)}
    IN  {AccessOfBits(bits, e) : bits \in {0, 1, 3, 5, 7}, e \in principals}
        \cup {Access("Custom", e, bits) : bits \in CustomBits, e \in principals}

\* the nine bytes serialise_inode_table writes for an entry
EntryBytes(a, strtab) == <<PermBits(a)>> \o ToLe(InternIndex(strtab, a.entity), 8)

\* serialise one entry of the Database's string table and parse it back
AccessRoundTrip(a) ==
    /\ ~Halted /\ ~page.live
    /\ LET wire == EntryBytes(a, db.string_table)
       IN  ret' = [Ret("access", "ok") EXCEPT
                     !.arg = a, !.bytes = wire,
                     !.old = ParseAccess(wire, 1, InternTable(db.string_table, a.entity))]
    /\ UNCHANGED <<build, db, page, handed, scan, rt, laid>> /\ UNCHANGED medvars

AclNext ==
    \/ ChangeBuffer
    \/ OpenImage
    \/ \E a \in Entries(db.string_table) : AccessRoundTrip(a)

AclSpec == Init /\ [][AclNext]_vars

-----------------------------------------------------------------------------
(* parse_inode_table on tables of a few records *)

\* the most records a table holds
MaxRecords == 3

\* the string table the records' name indices refer to
TableStrings == <<NameA, NameB, Slash>>

\* record i of a table: the name index, no ACL, and the one chunk
\* {length i, offset 100 * i}, which tells the records apart
TableRecord(name, i) ==
    ToLe(name, 8) \o ToLe(0, 2) \o Zeros(round(0, 16) - 2)
    \o ToLe(1, 8) \o ToLe(i, 8) \o ToLe(100 * i, 8)

\* the tables: every sequence of up to MaxRecords name indices
Tables == UNION {[1..n -> 0..(Len(TableStrings) - 1)] : n \in 0..MaxRecords}

TableBytes(names) == Flatten([i \in 1..Len(names) |-> TableRecord(names[i], i)])

\* parse_inode_table on the records `names`, with `length` records declared
ParseTable(names, length) ==
    /\ ~Halted /\ ~page.live
    /\ LET r == parse_inode_table(Container(TableBytes(names)), TableStrings, Array(length, 0))
       IN  ret' = [Ret("parse_inode_table", IF r.ok THEN "ok" ELSE r.err) EXCEPT
                     !.arg = names, !.n = length,
                     !.old = IF r.ok THEN r.val ELSE <<>>]
    /\ UNCHANGED <<build, db, page, handed, scan, rt, laid>> /\ UNCHANGED medvars

TableNext == \E names \in Tables, length \in 0..MaxRecords : ParseTable(names, length)

TableSpec == Init /\ [][TableNext]_vars

-----------------------------------------------------------------------------
(* A client that writes a byte string to a fresh page and reads it back,
   as test::read_write does *)

RtStep(pc) == [rt EXCEPT !.pc = pc]

\* create the page the byte string b goes to
RtCreate(path, b) ==
    /\ ~Halted /\ ~page.live /\ rt.pc = "idle"
    /\ \E r \in create_page(db, path, build) :
         /\ db' = r.db
         /\ page' = r.page
         /\ ret' = [Ret("create_page", r.res) EXCEPT
                      !.arg = path, !.arrays = r.chunks, !.alen = r.db.backing.len,
                      !.before = db.backing.len]
         /\ handed' = handed \o Handed("create", path, r.chunks)
         /\ rt' = IF r.res = "ok"
                  THEN [pc |-> "write", b |-> b, off |-> 0, got |-> <<>>]
                  ELSE rt
    /\ UNCHANGED <<build, scan, laid>> /\ UNCHANGED medvars

\* call Write with what is left of b, until all of b is accepted
RtWrite ==
    /\ ~Halted /\ page.live /\ rt.pc = "write"
    /\ IF rt.off = Len(rt.b)
       THEN /\ rt' = RtStep("rewind")
            /\ UNCHANGED <<db, page, ret, handed>>
       ELSE \E r \in write(page, db, SubSeq(rt.b, rt.off + 1, Len(rt.b)), build) :
              /\ page' = r.page
              /\ db' = r.db
              /\ ret' = [Ret("write", r.res) EXCEPT
                           !.arg = SubSeq(rt.b, rt.off + 1, Len(rt.b)), !.n = r.n,
                           !.at = r.at, !.arrays = r.chunks, !.alen = r.db.backing.len,
                           !.before = page.index]
              /\ handed' = handed \o Handed("write", page.page_descriptor.name, r.chunks)
              /\ rt' = IF r.res = "ok" /\ r.n > 0
                       THEN [rt EXCEPT !.off = rt.off + r.n]
                       ELSE RtStep("failed")
    /\ UNCHANGED <<build, scan, laid>> /\ UNCHANGED medvars

\* seek(SeekFrom::Start(0))
RtRewind ==
    /\ ~Halted /\ page.live /\ rt.pc = "rewind"
    /\ LET r == seek(page, [whence |-> "Start", n |-> 0], build)
       IN  /\ page' = r.page
           /\ ret' = [Ret("seek", r.res) EXCEPT
                        !.arg = [whence |-> "Start", n |-> 0], !.n = r.page.index,
                        !.before = page.index]
           /\ rt' = RtStep(IF r.res = "ok" THEN "read" ELSE "failed")
    /\ UNCHANGED <<build, db, handed, scan, laid>> /\ UNCHANGED medvars

\* call Read for the bytes still missing, until |b| bytes have arrived
RtRead ==
    /\ ~Halted /\ page.live /\ rt.pc = "read"
    /\ IF Len(rt.got) = Len(rt.b)
       THEN /\ rt' = RtStep("done")
            /\ UNCHANGED <<page, ret>>
       ELSE LET r == read(page, db.backing, Len(rt.b) - Len(rt.got))
            IN  /\ page' = r.page
                /\ ret' = [Ret("read", r.res) EXCEPT
                             !.arg = Len(rt.b) - Len(rt.got), !.n = r.n,
                             !.bytes = r.bytes, !.at = r.at, !.before = page.index]
                /\ rt' = IF r.res = "ok" /\ r.n > 0
                         THEN [rt EXCEPT !.got = rt.got \o r.bytes]
                         ELSE RtStep("failed")
    /\ UNCHANGED <<build, db, handed, scan, laid>> /\ UNCHANGED medvars

RtNext ==
    \/ ChangeBuffer
    \/ OpenImage
    \/ \E path \in Names, b \in WriteBufs : RtCreate(path, b)
    \/ RtWrite
    \/ RtRewind
    \/ RtRead

RtSpec == Init /\ [][RtNext]_vars

-----------------------------------------------------------------------------
(* The mediator: the request loop of Mediator::new *)

MaxReqs == 3
ReqOffsets == {0, 2}
ReqLengths == {2, 4}

\* RequestAction::req, with a buffer of the length of the range
Request(action, range) ==
    [action |-> action, range |-> range,
     buffer |-> IF action = "Write" THEN [i \in 1..range.length |-> 7]
                ELSE Zeros(range.length)]

Requests ==
    {Request(action, Array(length, offset)) :
        action \in {"Read", "Write"}, length \in ReqLengths, offset \in ReqOffsets}
    \cup {Request("Unload", Array(2, 0))}

\* the thread has unwound out of the loop
MedHalted == \E i \in 1..Len(status) : status[i].st = "panic"

\* the requests sent and not yet received by the loop
InFlight == {queue[i] : i \in 1..Len(queue)}

\* cache.binary_search_by on the offset: the place of the entry with this
\* offset, or the place where it would be inserted
binary_search(entries, offset) ==
    Cardinality({i \in 1..Len(entries) : entries[i].range.offset < offset})

\* Vec::insert at a 0-based index
Insert(entries, index, e) ==
    SubSeq(entries, 1, index) \o <<e>> \o SubSeq(entries, index + 1, Len(entries))

\* read_exact or write_all on the backing, at the position the stream is at
Perform(back, req) ==
    LET n == Len(req.buffer)
    IN  IF req.action = "Write"
        THEN [ok |-> TRUE, buffer |-> req.buffer,
              back |-> [c |-> WriteAt(back.c, back.pos, req.buffer), pos |-> back.pos + n]]
        ELSE IF CanRead(back.c, back.pos, n)
        THEN [ok |-> TRUE, buffer |-> Slice(back.c, back.pos, n),
              back |-> [back EXCEPT !.pos = back.pos + n]]
        ELSE [ok |-> FALSE, buffer |-> req.buffer,
              back |-> [back EXCEPT !.pos = back.c.len]]

\* a client sends a request into the channel
Send(req) ==
    /\ Len(status) < MaxReqs
    /\ status' = Append(status, [req |-> req, st |-> "Pending", with |-> InFlight])
    /\ queue' = Append(queue, Len(status) + 1)
    /\ UNCHANGED <<cache, mio, mback>> /\ UNCHANGED dbvars /\ UNCHANGED rtvars

\* one turn of the loop: receive a request and settle it
Process ==
    /\ ~MedHalted /\ queue # <<>>
    /\ LET id == Head(queue)
           req == status[id].req
           index == binary_search(cache, req.range.offset)
       IN  /\ queue' = Tail(queue)
           /\ IF index < Len(cache)
              THEN /\ status' = IF cache[index + 1].range.offset <= req.range.offset + req.range.length
                                THEN [status EXCEPT ![id].st = "Busy"]
                                ELSE status
                   /\ UNCHANGED <<cache, mio, mback>>
              ELSE IF req.action = "Unload"
              THEN /\ status' = [status EXCEPT ![id].st = "panic"]
                   /\ UNCHANGED <<cache, mio, mback>>
              ELSE LET r == Perform(mback, req)
                   IN  /\ status' = [status EXCEPT
                                       ![id].st = IF r.ok THEN "Success" ELSE "Failed",
                                       ![id].req.buffer = r.buffer]
                       /\ cache' = Insert(cache, index, [range |-> req.range, buffer |-> r.buffer])
                       /\ mio' = mio + 1
                       /\ mback' = r.back
    /\ UNCHANGED dbvars /\ UNCHANGED rtvars

MedNext ==
    \/ \E req \in Requests : Send(req)
    \/ Process

MedSpec == Init /\ [][MedNext]_vars

-----------------------------------------------------------------------------
(* Properties: create_page, open_page and the allocator (Spec) *)

\* the names of the pages created on this Database before the last call
CreatedBefore ==
    {handed[i].name : i \in {j \in 1..(Len(handed) - Len(ret.arrays)) : handed[j].by = "create"}}

\* C1: once create_page(n) has succeeded, a second create_page(n) on the same
\* Database fails with AlreadyExists and open_page(n) succeeds.
C1_CreateThenExists ==
    /\ (ret.op = "create_page" /\ ret.arg \in CreatedBefore) => ret.res = "AlreadyExists"
    /\ (ret.op = "open_page" /\ ret.arg \in CreatedBefore) => ret.res = "ok"

\* C2: no two chunks handed to pages (by create_page or by a Page write) have
\* intersecting byte ranges.
C2_ChunksDisjoint ==
    \A i, j \in 1..Len(handed) : i < j => ~Intersects(handed[i].chunk, handed[j].chunk)

\* the chunks recorded in the page descriptors of the inode table
TableChunks(d) ==
    UNION {{d.inode_table[n].inodes[i] : i \in 1..Len(d.inode_table[n].inodes)} :
              n \in DOMAIN d.inode_table}

\* the call of allocate_chunks made by the last operation, if it returned
Allocated == ret.op \in {"create_page", "write"} /\ ret.arrays # <<>>
MinSpace == IF ret.op = "create_page" THEN 16 ELSE Len(ret.arg)

\* C3: the Arrays returned by allocate_chunks(m) have total length >= m and
\* none of them intersects a chunk recorded in the inode table.
C3_AllocFreshSpace ==
    Allocated =>
        /\ SumLen(ret.arrays) >= MinSpace
        /\ \A i \in 1..Len(ret.arrays) : \A c \in TableChunks(db) :
              ~Intersects(ret.arrays[i], c)

\* C4: every range returned by allocate_chunks starts at or after the end of
\* the header, the metadata and the tables as laid out in the container, and
\* ends at or before the container length after the call.
C4_AllocInDataRegion ==
    Allocated =>
        \A i \in 1..Len(ret.arrays) :
            /\ ret.arrays[i].offset >= laid
            /\ end(ret.arrays[i]) <= ret.alen

\* C9: interning is index-stable: intern(lookup(i)) = i for every valid i, and
\* for every string s lookup(intern(s)) = s and a second intern(s) returns the
\* same index without growing the table.
C9_InternStable ==
    LET st == db.string_table
    IN  /\ \A i \in 0..(Len(st) - 1) : get_strtab_index(st, Str(st, i)).index = i
        /\ \A s \in Names \cup {Star} :
              LET one == get_strtab_index(st, s)
                  two == get_strtab_index(one.table, s)
              IN  /\ Str(one.table, one.index) = s
                  /\ two.index = one.index
                  /\ two.table = one.table

-----------------------------------------------------------------------------
(* Properties: reading and seeking (PageSpec) *)

\* C5: reading from cursor 0 until Read returns 0 yields exactly the bytes of
\* the page's chunks, in order.
C5_ReadAllIsConcat ==
    scan.st = "eof" => scan.acc = ChunkBytes(db.backing, page.page_descriptor.inodes)

\* C6: a single Read stays inside the chunk the cursor is in: it starts at or
\* after the chunk's offset and ends at or before the chunk's end.
C6_ReadWithinChunk ==
    (ret.op = "read" /\ ret.res = "ok" /\ ret.n > 0) =>
        /\ ret.chunk.offset <= ret.at
        /\ ret.at + ret.n <= end(ret.chunk)

\* C8: a Seek(Current(0)) after a successful Seek returns the same offset, and
\* Seek(End(-n)) with 0 <= n <= total returns total - n.
C8_SeekAgrees ==
    LET total == SumLen(page.page_descriptor.inodes)
    IN  /\ (ret.op = "seek" /\ ret.arg = [whence |-> "Current", n |-> 0])
              => (ret.res = "ok" /\ ret.n = ret.before)
        /\ (ret.op = "seek" /\ ret.arg.whence = "End" /\ -ret.arg.n \in 0..total)
              => (ret.res = "ok" /\ ret.n = total + ret.arg.n)

-----------------------------------------------------------------------------
(* Properties: the round trip (RtSpec) and the mediator (MedSpec) *)

\* C7: on a fresh page, writing b by calling Write until all of b is accepted,
\* then seeking to Start(0) and reading |b| bytes returns exactly b, for every
\* length of b: the client never fails and ends with the bytes it wrote.
C7_RoundTrip ==
    /\ rt.pc # "failed"
    /\ rt.pc = "done" => rt.got = rt.b

\* C10: of two write requests on overlapping ranges that are in flight at the
\* same time, at most one succeeds, and once both are settled the other one
\* has failed with Busy.
C10_OverlappingWrites ==
    \A i, j \in 1..Len(status) :
        (/\ i < j
         /\ i \in status[j].with
         /\ status[i].req.action = "Write" /\ status[j].req.action = "Write"
         /\ Intersects(status[i].req.range, status[j].req.range))
        => /\ ~(status[i].st = "Success" /\ status[j].st = "Success")
           /\ (i \notin InFlight /\ j \notin InFlight)
                 => (status[i].st = "Busy" \/ status[j].st = "Busy")

-----------------------------------------------------------------------------
(* Properties: the mediator's locks (MedSpec) *)

\* the loop has received request i and is done with it
Settled(i) == i \in 1..Len(status) /\ i \notin InFlight

\* the served write requests received before request j: their ranges are in
\* the cache when j is received
WritesBefore(j) ==
    {i \in 1..(j - 1) : status[i].req.action = "Write" /\ status[i].st = "Success"}

\* C11: while a Write lock on W is active, every read request on a range that
\* overlaps W returns Busy at once and performs no container I/O.
C11_ReadOverWriteBusy ==
    \A j \in 1..Len(status) :
        (/\ Settled(j) /\ ~MedHalted
         /\ status[j].req.action = "Read"
         /\ \E i \in WritesBefore(j) : Intersects(status[i].req.range, status[j].req.range))
        => status[j].st = "Busy"

\* C12: a read request on R succeeds whenever no active Write lock overlaps R,
\* whether the locks around R are Read locks, adjacent to R or disjoint from R.
C12_ReadSucceedsWithoutWrite ==
    \A j \in 1..Len(status) :
        (/\ Settled(j) /\ ~MedHalted
         /\ status[j].req.action = "Read"
         /\ \A i \in WritesBefore(j) : ~Intersects(status[i].req.range, status[j].req.range))
        => status[j].st = "Success"

\* C17: locks are released on every exit path: when no request is in flight
\* the lock set is empty.
C17_LocksReleased ==
    (queue = <<>> /\ ~MedHalted) => cache = <<>>

\* C18: after a write of bytes B on a range has returned success, a later read
\* on the same range, with no write in between, succeeds and returns B.
C18_ReadSeesWrite ==
    \A i, j \in 1..Len(status) :
        (/\ i < j /\ Settled(j) /\ ~MedHalted
         /\ status[i].req.action = "Write" /\ status[i].st = "Success"
         /\ status[j].req.action = "Read"
         /\ status[j].req.range = status[i].req.range
         /\ \A k \in (i + 1)..(j - 1) : status[k].req.action # "Write")
        => /\ status[j].st = "Success"
           /\ status[j].req.buffer = status[i].req.buffer

-----------------------------------------------------------------------------
(* Properties: the header and the tables (HeaderSpec) *)

\* the last call wrote the header
WroteHeader == ret.op \in {"write_header", "change_buffer"} /\ ret.res = "ok"

\* the last call was open on the container the Database had just written
ReadBack == ret.op = "reopen" /\ ret.prev # <<>> /\ ret.prev[1] \in {"write_header", "change_buffer"}

\* the string table holds this string
Resolves(strtab, str) == \E i \in 0..(Len(strtab) - 1) : Str(strtab, i) = str

\* C13: write_header followed by open on the same container yields a Database
\* whose inode table has the same page names, ACL entries and chunk lists, and
\* whose string table resolves every name and principal.
C13_HeaderRoundTrip ==
    ReadBack =>
        /\ ret.res = "ok"
        /\ db.inode_table = ret.old
        /\ \A n \in DOMAIN ret.old :
              /\ Resolves(db.string_table, n)
              /\ \A i \in 1..Len(ret.old[n].access_control_list) :
                    Resolves(db.string_table, ret.old[n].access_control_list[i].entity)

\* C14: for every metadata length, change_buffer(fresh empty container) on a
\* blank Database leaves bytes on which open succeeds and returns a Database
\* whose inode table holds exactly the page "/".
C14_BlankReopens ==
    (ret.op = "reopen" /\ ret.prev = <<"change_buffer", "blank">>) =>
        /\ ret.res = "ok"
        /\ DOMAIN db.inode_table = {Slash}

\* blank followed by change_buffer has just returned
BlankWritten == ret.op = "change_buffer" /\ ret.prev = <<"blank">>

\* C15: after blank followed by change_buffer onto an empty container, bytes
\* 0..4 are "FSDB", bytes 4..8 are 1,0,0,0 and the u64 at bytes 16..24 is 1.
C15_BlankHeaderBytes ==
    BlankWritten =>
        /\ Slice(db.backing, 0, 4) = <<70, 83, 68, 66>>
        /\ Slice(db.backing, 4, 4) = <<1, 0, 0, 0>>
        /\ FromLe(Slice(db.backing, 16, 8)) = 1

C15_Witness ==
    /\ BlankWritten
    /\ Len(db.meta) = 2
    /\ db.backing.len > 80
    /\ ByteAt(db.backing, 0) = 70

\* open has just succeeded
Opened == ret.op \in {"open", "reopen"} /\ ret.res = "ok"

\* C16: for every container on which open succeeds, the in-memory string table
\* has as many entries as the string_table.length of the container's header.
C16_StringCountDeclared ==
    Opened => Len(db.string_table) = FromLe(Slice(db.backing, 32, 8))

C16_Witness ==
    /\ Opened
    /\ FromLe(Slice(db.backing, 32, 8)) = 3
    /\ Len(db.string_table) = 3

\* C19: after write_header the pointer block at bytes 16..64 holds the inode
\* record count and the offset this call wrote the inode table at, the string
\* count and the offset this call wrote the string table at, and history
\* length 0 with the computed history offset.
C19_PointerBlock ==
    WroteHeader =>
        Slice(db.backing, 16, 48) =
            Flatten(<<ToLe(ret.hdr.inode_length, 8), ToLe(ret.hdr.inode_offset, 8),
                      ToLe(ret.hdr.string_length, 8), ToLe(ret.hdr.string_offset, 8),
                      ToLe(0, 8), ToLe(ret.hdr.history_offset, 8)>>)

\* C20: the string_offset write_header computes is a multiple of 0x100 and is
\* at or after the end of the serialised inode table.
C20_StringOffsetAligned ==
    WroteHeader =>
        /\ ret.hdr.string_offset % 256 = 0
        /\ ret.hdr.string_offset >= ret.hdr.inode_offset + ret.hdr.inode_size

-----------------------------------------------------------------------------
(* Properties: access entries (AclSpec) *)

\* C21: an access entry serialised to the wire form of the inode table and
\* parsed back is the same variant with the same custom bits and principal.
C21_AccessRoundTrip ==
    ret.op = "access" => ret.old = ret.arg

-----------------------------------------------------------------------------
(* Properties: parse_inode_table (TableSpec) *)

\* two of the declared records carry the same page name
DuplicateName ==
    \E i, j \in 1..Min(ret.n, Len(ret.arg)) : i < j /\ ret.arg[i] = ret.arg[j]

\* C22: parsing an inode table in which two records carry the same page name
\* fails (any error is taken for CorruptFormat); it never returns a table in
\* which one record replaced the other, and no record beyond the declared
\* inode_table.length is read into the table.
C22_DuplicateNameFails ==
    ret.op = "parse_inode_table" =>
        /\ DuplicateName => ret.res # "ok"
        /\ \A n \in DOMAIN ret.old : ret.old[n].inodes[1].length <= ret.n

-----------------------------------------------------------------------------
(* Properties: Page write (Spec) *)

\* the last call was a Write with the cursor outside every chunk of the page
WroteOutside == ret.op = "write" /\ ret.chunk = NoArray

\* the last call was a Write with the cursor inside a chunk of the page
WroteInside == ret.op = "write" /\ ret.chunk # NoArray

\* the container holds the header write_header writes for this Database
HeaderCurrent(d) ==
    \E order \in Orders(DOMAIN d.inode_table) : write_header(d, order).backing = d.backing

\* C23: with the cursor outside every chunk, Write(buf) allocates buf.len()
\* bytes, appends the returned Arrays at the end of the page's chunk list,
\* stores the first bytes of buf at the first new chunk's offset, and
\* write_header has completed when Write returns.
C23_WriteAllocates ==
    WroteOutside =>
        LET inodes == page.page_descriptor.inodes
            new == ret.arrays
        IN  /\ ret.res = "ok"
            /\ new # <<>>
            /\ SumLen(new) >= Len(ret.arg)
            /\ Len(inodes) >= Len(new)
            /\ SubSeq(inodes, Len(inodes) - Len(new) + 1, Len(inodes)) = new
            /\ SumLen(SubSeq(inodes, 1, Len(inodes) - Len(new))) <= ret.before
            /\ Slice(db.backing, new[1].offset, Min(new[1].length, Len(ret.arg)))
                  = SubSeq(ret.arg, 1, Min(new[1].length, Len(ret.arg)))
            /\ HeaderCurrent(db)

\* C24: with the cursor inside a chunk c, Write(buf) stores bytes only within
\* [c.offset, c.end()) and performs no allocation, so the chunk list, the
\* container length and every byte outside c stay as they were.
C24_WriteInsideChunk ==
    (WroteInside /\ ret.res = "ok") =>
        /\ ret.chunk.offset <= ret.at
        /\ ret.at + ret.n <= end(ret.chunk)
        /\ ret.arrays = <<>>

(* Properties: the inode table and its pages (Spec) *)

\* the last call handed chunks to the page handle
AppendedChunks ==
    \/ ret.op = "create_page" /\ ret.res = "ok"
    \/ ret.op = "write" /\ ret.arrays # <<>>

\* C25: after create_page(n) returns, and after every Page write that appends
\* chunks, the inode table holds an entry for n whose chunk list equals the
\* chunk list of the page handle.
C25_TableTracksPages ==
    AppendedChunks =>
        LET n == page.page_descriptor.name
        IN  /\ n \in DOMAIN db.inode_table
            /\ db.inode_table[n].inodes = page.page_descriptor.inodes

(* Properties: relative seeks (PageSpec) *)

\* the position a relative Seek is measured from: the cursor before the call
\* for Current, the sum of the chunk lengths for End
SeekBase ==
    IF ret.arg.whence = "Current" THEN ret.before ELSE SumLen(page.page_descriptor.inodes)

RelativeSeek == ret.op = "seek" /\ ret.arg.whence \in {"Current", "End"}

\* C26: Seek(Current(d)) with cursor + d < 0 and Seek(End(d)) with total + d < 0
\* fail with the seek error (the code's kind for it is UnexpectedEof) and leave
\* the cursor unchanged; every other relative Seek succeeds and sets the cursor
\* to exactly cursor + d, respectively total + d.
C26_RelativeSeek ==
    RelativeSeek =>
        IF SeekBase + ret.arg.n < 0
        THEN ret.res = "UnexpectedEof" /\ page.index = ret.before
        ELSE ret.res = "ok" /\ page.index = SeekBase + ret.arg.n /\ ret.n = page.index

(* Properties: the allocator's gaps (Spec) *)

\* position p lies inside a chunk recorded in the inode table
Covered(d, p) == \E c \in TableChunks(d) : c.offset <= p /\ p < end(c)

\* where the free run starting at s stops: the next chunk or the container end
GapEnd(d, len, s) ==
    LET stops == {len} \cup {c.offset : c \in {x \in TableChunks(d) : x.offset >= s}}
    IN  CHOOSE e \in stops : \A f \in stops : e <= f

\* the gaps between data_start and the container end: the maximal runs of
\* positions of [data_offset, len) that no chunk of the inode table covers
FreeGaps(d, len) ==
    LET starts == {data_offset(d)} \cup {end(c) : c \in TableChunks(d)}
    IN  {Array(GapEnd(d, len, s) - s, s) :
            s \in {t \in starts : t >= data_offset(d) /\ t < len /\ ~Covered(d, t)}}

Fitting(d, len, min_space) == {g \in FreeGaps(d, len) : g.length >= min_space}

\* the last operation called allocate_chunks(0x10) on a container of
\* ret.before bytes; create_page leaves the inode table as it was
CalledAllocate == ret.op = "create_page" /\ ret.res # "AlreadyExists"

\* C27: when a gap between data_start and the container end has length >=
\* min_space, allocate_chunks(min_space) returns exactly one Array of length
\* min_space at the start of a smallest such gap and leaves the container
\* length unchanged.
C27_SmallestGap ==
    LET fit == Fitting(db, ret.before, 16)
    IN  (CalledAllocate /\ fit # {}) =>
            /\ ret.res = "ok"
            /\ Len(ret.arrays) = 1
            /\ ret.arrays[1].length = 16
            /\ \E g \in fit : /\ ret.arrays[1].offset = g.offset
                              /\ \A h \in fit : g.length <= h.length
            /\ ret.alen = ret.before

\* C28: when no gap has length >= min_space, allocate_chunks(min_space) grows
\* the container by exactly min_space + (0x1000 - min_space mod 0x1000) zero
\* bytes and returns the single Array {offset: old container length, length:
\* min_space}.
C28_GrowByPage ==
    (CalledAllocate /\ Fitting(db, ret.before, 16) = {}) =>
        LET grow == 16 + (4096 - (16 % 4096))
        IN  /\ ret.res = "ok"
            /\ ret.arrays = <<Array(16, ret.before)>>
            /\ ret.alen = ret.before + grow
            /\ Slice(db.backing, ret.before, grow) = Zeros(grow)

\* C30: in every reachable state the gap computation curr.offset - prev.end of
\* the allocator never subtracts a larger value from a smaller one, whatever
\* arrangement the sort by offset produces.
C30_NoUnderflow ==
    \A sorted \in SortedByOffset(AllocItems(db)) :
        \A i \in 1..Len(sorted) : GapBefore(sorted, i, data_offset(db)).length >= 0

(* Properties: the cursor after a write (WriteSpec) *)

=============================================================================
